---- MODULE Spec2Model ----
(***************************************************************************)
(* JsonSerializer (include/JsonSerializer.h): one traversal that writes a  *)
(* native value into a Json::Value tree or reads it back, selected by      *)
(* IsWriter.  The recursive template overloads are operators; each action  *)
(* is one top-level call on a root context.                                *)
(*                                                                         *)
(* Integers are two's complement bit patterns of 64 bits, held as four     *)
(* 16-bit limbs, most significant first, so that the casts of the source   *)
(* ((int), (unsigned int), (TValue)) act on the bits.                      *)
(***************************************************************************)
EXTENDS Integers, Sequences, FiniteSets, TLC

VARIABLES IsWriter, JsonValue, typ, value, op, key, pre, preJson, mode0,
          made, junk, rt, src, srcTyp

vars == <<IsWriter, JsonValue, typ, value, op, key, pre, preJson, mode0,
          made, junk, rt, src, srcTyp>>

\* Longest sequence, and longest array node, of the inputs.
MaxLen == 2

-----------------------------------------------------------------------------
(* Integers *)

N(n) == <<0, 0, 0, n>>
MinusOne == <<65535, 65535, 65535, 65535>>
IntMax == <<0, 0, 32767, 65535>>
IntMin == <<65535, 65535, 32768, 0>>
UIntMax == <<0, 0, 65535, 65535>>
TwoTo31 == <<0, 0, 32768, 0>>
TwoTo32 == <<0, 1, 0, 0>>

\* (int) x: the low 32 bits, read as a signed number (sign-extended here).
CastInt(x) ==
  IF x[3] >= 32768 THEN <<65535, 65535, x[3], x[4]>> ELSE <<0, 0, x[3], x[4]>>

\* (unsigned int) x: the low 32 bits, read as an unsigned number.
CastUInt(x) == <<0, 0, x[3], x[4]>>

\* (short) x: the low 16 bits, read as a signed number.
CastShort(x) ==
  IF x[4] >= 32768 THEN <<65535, 65535, 65535, x[4]>> ELSE <<0, 0, 0, x[4]>>

-----------------------------------------------------------------------------
(* The value tree (Json::Value) *)

EmptyMap == [k \in {} |-> 0]

Null == [kind |-> "null", v |-> <<>>]
JBool(b) == [kind |-> "bool", v |-> b]
JInt(x) == [kind |-> "int", v |-> x]
JUInt(x) == [kind |-> "uint", v |-> x]
JStr(s) == [kind |-> "string", v |-> s]
JArr(s) == [kind |-> "array", v |-> s]
JObj(f) == [kind |-> "object", v |-> f]

\* Faulty variant of isNull: no node reports itself null.
isNull_never(node) == FALSE

isNull(node) == node.kind = "null"
isArray(node) == node.kind = "array"
isObject(node) == node.kind = "object"

\* A key is a member name or an array index (0-based, as in the source).
KS(name) == [isIdx |-> FALSE, idx |-> 0, name |-> name]
KI(i) == [isIdx |-> TRUE, idx |-> i, name |-> ""]

\* The order in which an object's members, and a std::map's entries, are
\* visited: both are ordered by key.
KeyOrder == <<"a", "b", "e", "j", "k", "m", "n", "p", "s", "v">>

IsMember(f, k) == k \in DOMAIN f
MemberNames(f) == SelectSeq(KeyOrder, LAMBDA k : IsMember(f, k))

MapPut(m, k, x) == [y \in (DOMAIN m) \cup {k} |-> IF y = k THEN x ELSE m[y]]

\* node[key], read: the child at key, null when there is none.
Index(node, k) ==
  IF k.isIdx
  THEN IF isArray(node) /\ k.idx < Len(node.v) THEN node.v[k.idx + 1] ELSE Null
  ELSE IF isObject(node) /\ IsMember(node.v, k.name) THEN node.v[k.name] ELSE Null

\* node[key] = child: a null node becomes an array (index key) or an object
\* (name key); an array grows, padded with nulls, to hold the index.
Assign(node, k, child) ==
  IF k.isIdx
  THEN LET old == IF isArray(node) THEN node.v ELSE <<>>
           n == IF k.idx + 1 > Len(old) THEN k.idx + 1 ELSE Len(old)
       IN JArr([i \in 1..n |-> IF i = k.idx + 1 THEN child
                               ELSE IF i <= Len(old) THEN old[i] ELSE Null])
  ELSE LET old == IF isObject(node) THEN node.v ELSE EmptyMap
       IN JObj(MapPut(old, k.name, child))

\* Json::Value::size()
Size(node) ==
  IF isArray(node) THEN Len(node.v)
  ELSE IF isObject(node) THEN Cardinality(DOMAIN node.v) ELSE 0

asInt(node) ==
  CASE node.kind = "int" -> node.v
    [] node.kind = "uint" -> CastInt(node.v)
    [] node.kind = "bool" -> IF node.v THEN N(1) ELSE N(0)
    [] node.kind = "null" -> N(0)

asUInt(node) ==
  CASE node.kind = "uint" -> node.v
    [] node.kind = "int" -> CastUInt(node.v)
    [] node.kind = "bool" -> IF node.v THEN N(1) ELSE N(0)
    [] node.kind = "null" -> N(0)

asBool(node) ==
  CASE node.kind = "bool" -> node.v
    [] node.kind \in {"int", "uint"} -> node.v # N(0)
    [] node.kind = "null" -> FALSE

asString(node) ==
  CASE node.kind = "string" -> node.v
    [] node.kind = "null" -> ""

-----------------------------------------------------------------------------
(* The types the traversal is instantiated with *)

Fundamental == {"bool", "short", "int", "uint", "long", "ulong", "size_t"}
Enums == {"E", "E64"}
Vectors == {"vector_int", "vector_string", "vector_vector_int", "vector_P"}
Deques == {"deque_int"}
Maps == {"map_int", "map_vector_int", "map_P"}
Classes == {"P", "Q", "R", "Z"}
Types == Fundamental \cup {"string"} \cup Enums \cup Vectors \cup Deques
         \cup Maps \cup Classes

ElemType(T) ==
  CASE T \in {"vector_int", "deque_int", "map_int"} -> "int"
    [] T = "vector_string" -> "string"
    [] T \in {"vector_vector_int", "map_vector_int"} -> "vector_int"
    [] T \in {"vector_P", "map_P"} -> "P"

\* The fields a class hands to the serializer in its Serialize member, in
\* order: s.Serialize(NVP(field)).
Fields(T) ==
  CASE T = "P" -> <<[name |-> "n", type |-> "int"], [name |-> "s", type |-> "string"]>>
    [] T = "Q" -> <<[name |-> "v", type |-> "vector_int"], [name |-> "m", type |-> "map_int"]>>
    [] T = "R" -> <<[name |-> "p", type |-> "P"], [name |-> "e", type |-> "E"]>>
    [] T = "Z" -> <<>>

\* What the default constructor of a class leaves in its fields.  Q is a
\* class whose default construction yields non-empty containers.
Ctor(T) ==
  CASE T = "P" -> [n |-> N(42), s |-> "d"]
    [] T = "Q" -> [v |-> <<N(1), N(2)>>, m |-> [k \in {"a"} |-> N(1)]]
    [] T = "R" -> [p |-> [n |-> N(42), s |-> "d"], e |-> N(0)]
    [] T = "Z" -> <<>>

\* TValue val; -- a fundamental or enum local is left uninitialized (j is
\* whatever the storage held), a class type runs its default constructor.
DefaultInit(T, j) ==
  CASE T = "bool" -> j # N(0)
    [] T \in Fundamental \ {"bool"} -> j
    [] T \in Enums -> j
    [] T = "string" -> ""
    [] T \in Vectors \cup Deques -> <<>>
    [] T \in Maps -> EmptyMap
    [] T \in Classes -> Ctor(T)

JunkAt(js, i) == js[(i % Len(js)) + 1]

-----------------------------------------------------------------------------
(* The serializer context and its overloads *)

\* Faulty variant of NewContext: the child context gets the other mode.
NewContext_flipped(isWriter) == [IsWriter |-> ~isWriter, JsonValue |-> Null]

\* JsonSerializer(bool isWriter): the bound node starts null.
NewContext(isWriter) == [IsWriter |-> isWriter, JsonValue |-> Null]

\* JsonSerializer(bool isWriter, Json::Value value)
Bind(isWriter, node) == [IsWriter |-> isWriter, JsonValue |-> node]

\* What a call leaves behind: the context it ran on, the native value it was
\* given by reference, and the modes of the contexts it constructed, in order.
Ret(self, val, ms) == [self |-> self, value |-> val, made |-> ms]

\* Faulty variant of WriteNode: the long and unsigned long overloads store
\* the value without the cast to 32 bits.
WriteNode_noCast(T, val) ==
  CASE T \in {"long", "int", "short"} -> JInt(val)
    [] T \in {"ulong", "size_t", "uint"} -> JUInt(val)
    [] T = "bool" -> JBool(val)
    [] T = "string" -> JStr(val)

\* The node the Write overloads store for a value of type T.
WriteNode(T, val) ==
  CASE T = "long" -> JInt(CastInt(val))
    [] T = "ulong" -> JUInt(CastUInt(val))
    [] T = "size_t" -> JUInt(CastUInt(val))
    [] T = "uint" -> JUInt(val)
    [] T = "bool" -> JBool(val)
    [] T = "string" -> JStr(val)
    [] T \in {"int", "short"} -> JInt(val)

Write(self, k, T, val) ==
  [self EXCEPT !.JsonValue = Assign(@, k, WriteNode(T, val))]

\* The Read overloads: the value at key converted to T, or the destination as
\* it was when the child at key is null.
Read(self, k, T, val) ==
  LET subval == Index(self.JsonValue, k)
  IN IF isNull(subval) THEN val
     ELSE CASE T = "bool" -> asBool(subval)
            [] T \in {"int", "long"} -> asInt(subval)
            [] T \in {"uint", "ulong"} -> asUInt(subval)
            [] T = "string" -> asString(subval)
            [] T = "short" -> CastShort(asInt(subval))
            [] T = "size_t" -> asInt(subval)

RECURSIVE Serialize(_, _, _, _, _)
RECURSIVE SerializeImpl(_, _, _, _, _)
RECURSIVE RangeLoop(_, _, _, _, _)
RECURSIVE ReadLoop(_, _, _, _, _)
RECURSIVE MapReadLoop(_, _, _, _, _, _)
RECURSIVE MapWriteLoop(_, _, _, _, _, _)

\* Serialize(key, value) for a class type.
Serialize_class(self, k, T, val, js) ==
  LET fresh == NewContext(self.IsWriter)
      subVal == IF ~self.IsWriter
                THEN [fresh EXCEPT !.JsonValue = Index(self.JsonValue, k)]
                ELSE fresh
  IN IF ~self.IsWriter /\ isNull(subVal.JsonValue)
     THEN Ret(self, val, <<subVal.IsWriter>>)
     ELSE LET r == SerializeImpl(subVal, T, val, js, 1)
          IN Ret(IF self.IsWriter
                 THEN [self EXCEPT !.JsonValue = Assign(@, k, r.self.JsonValue)]
                 ELSE self,
                 r.value, <<subVal.IsWriter>> \o r.made)

\* value.Serialize(*this): the class serializes its fields from i on.
SerializeImpl(self, T, val, js, i) ==
  IF i > Len(Fields(T)) THEN Ret(self, val, <<>>)
  ELSE LET f == Fields(T)[i]
           r == Serialize(self, KS(f.name), f.type, val[f.name], js)
           rest == SerializeImpl(r.self, T, [val EXCEPT ![f.name] = r.value], js, i + 1)
       IN Ret(rest.self, rest.value, r.made \o rest.made)

\* Serialize(key, value) for std::string and for the fundamental types.
Serialize_scalar(self, k, T, val) ==
  IF self.IsWriter THEN Ret(Write(self, k, T, val), val, <<>>)
  ELSE Ret(self, Read(self, k, T, val), <<>>)

\* Serialize(key, value) for an enum: through int ival = (int) value; the cast
\* back, (TEnum) ival, widens the int to the enum's underlying type.
Serialize_enum(self, k, T, val) ==
  LET ival == CastInt(val)
  IN IF self.IsWriter THEN Ret(Write(self, k, "int", ival), val, <<>>)
     ELSE Ret(self, Read(self, k, "int", ival), <<>>)

\* WriteOnly(key, value) for a fundamental type.
WriteOnly_scalar(self, k, T, val) ==
  IF self.IsWriter THEN Ret(Write(self, k, T, val), val, <<>>)
  ELSE Ret(self, val, <<>>)

\* for(it = first; it != last; ++it) { subVal.Serialize(index, *it); ++index; }
RangeLoop(subVal, ET, seq, js, index) ==
  IF index >= Len(seq) THEN Ret(subVal, seq, <<>>)
  ELSE LET r == Serialize(subVal, KI(index), ET, seq[index + 1], js)
           rest == RangeLoop(r.self, ET, [seq EXCEPT ![index + 1] = r.value], js, index + 1)
       IN Ret(rest.self, rest.value, r.made \o rest.made)

\* WriteOnly(key, first, last)
WriteOnly_range(self, k, ET, seq, js) ==
  IF ~self.IsWriter THEN Ret(self, seq, <<>>)
  ELSE LET subVal == [NewContext(self.IsWriter) EXCEPT !.JsonValue = JArr(<<>>)]
           r == RangeLoop(subVal, ET, seq, js, 0)
       IN Ret([self EXCEPT !.JsonValue = Assign(@, k, r.self.JsonValue)],
              r.value, <<subVal.IsWriter>> \o r.made)

\* for(i = 0; i < JsonValue.size(); ++i) { TValue val; Serialize(i, val);
\* push_back(val); }
ReadLoop(self, ET, vec, js, i) ==
  IF i >= Size(self.JsonValue) THEN Ret(self, vec, <<>>)
  ELSE LET val == DefaultInit(ET, JunkAt(js, i))
           r == Serialize(self, KI(i), ET, val, js)
           rest == ReadLoop(r.self, ET, Append(vec, r.value), js, i + 1)
       IN Ret(rest.self, rest.value, r.made \o rest.made)

\* Faulty variant of ReadOnly(std::vector): no test that the node is an array.
ReadOnly_vector_noShapeCheck(self, ET, vec, js) ==
  IF self.IsWriter THEN Ret(self, vec, <<>>)
  ELSE ReadLoop(self, ET, <<>>, js, 0)

\* Faulty variant of ReadOnly(std::vector): the vector is not cleared.
ReadOnly_vector_noClear(self, ET, vec, js) ==
  IF self.IsWriter THEN Ret(self, vec, <<>>)
  ELSE IF ~isArray(self.JsonValue) THEN Ret(self, vec, <<>>)
  ELSE ReadLoop(self, ET, vec, js, 0)

\* ReadOnly(std::vector<TValue>& vec)
ReadOnly_vector(self, ET, vec, js) ==
  IF self.IsWriter THEN Ret(self, vec, <<>>)
  ELSE IF ~isArray(self.JsonValue) THEN Ret(self, vec, <<>>)
  ELSE ReadLoop(self, ET, <<>>, js, 0)

\* Serialize(key, std::vector<TValue>& vec)
Serialize_vector(self, k, ET, vec, js) ==
  IF self.IsWriter THEN WriteOnly_range(self, k, ET, vec, js)
  ELSE LET subVal == [NewContext(self.IsWriter) EXCEPT !.JsonValue = Index(self.JsonValue, k)]
           r == ReadOnly_vector(subVal, ET, vec, js)
       IN Ret(self, r.value, <<subVal.IsWriter>> \o r.made)

\* ReadOnly(std::deque<TValue>& dq)
ReadOnly_deque(self, ET, dq, js) ==
  IF self.IsWriter THEN Ret(self, dq, <<>>)
  ELSE IF ~isArray(self.JsonValue) THEN Ret(self, dq, <<>>)
  ELSE ReadLoop(self, ET, <<>>, js, 0)

\* Serialize(key, std::deque<TValue>& dq)
Serialize_deque(self, k, ET, dq, js) ==
  IF self.IsWriter THEN WriteOnly_range(self, k, ET, dq, js)
  ELSE LET subVal == [NewContext(self.IsWriter) EXCEPT !.JsonValue = Index(self.JsonValue, k)]
           r == ReadOnly_deque(subVal, ET, dq, js)
       IN Ret(self, r.value, <<subVal.IsWriter>> \o r.made)

\* for(it = JsonValue.begin(); it != JsonValue.end(); ++it): names[i] is
\* it.key(); the context subVal is built and bound to *it, the value is read
\* with Serialize(key, value) on this context.
MapReadLoop(self, VT, m, js, names, i) ==
  IF i > Len(names) THEN Ret(self, m, <<>>)
  ELSE LET subVal == [NewContext(self.IsWriter) EXCEPT !.JsonValue = self.JsonValue.v[names[i]]]
           val == DefaultInit(VT, JunkAt(js, i - 1))
           r == Serialize(self, KS(names[i]), VT, val, js)
           rest == MapReadLoop(r.self, VT, MapPut(m, names[i], r.value), js, names, i + 1)
       IN Ret(rest.self, rest.value, <<subVal.IsWriter>> \o r.made \o rest.made)

\* Faulty variant of ReadOnly(std::map): the map is not cleared.
ReadOnly_map_noClear(self, VT, m, js) ==
  IF self.IsWriter THEN Ret(self, m, <<>>)
  ELSE IF ~isObject(self.JsonValue) THEN Ret(self, m, <<>>)
  ELSE MapReadLoop(self, VT, m, js, MemberNames(self.JsonValue.v), 1)

\* ReadOnly(std::map<std::string, TValue>& m)
ReadOnly_map(self, VT, m, js) ==
  IF self.IsWriter THEN Ret(self, m, <<>>)
  ELSE IF ~isObject(self.JsonValue) THEN Ret(self, m, <<>>)
  ELSE MapReadLoop(self, VT, EmptyMap, js, MemberNames(self.JsonValue.v), 1)

\* for(it = m.begin(); it != m.end(); ++it) subVal.Serialize(it->first, it->second);
MapWriteLoop(subVal, VT, m, js, names, i) ==
  IF i > Len(names) THEN Ret(subVal, m, <<>>)
  ELSE LET r == Serialize(subVal, KS(names[i]), VT, m[names[i]], js)
           rest == MapWriteLoop(r.self, VT, [m EXCEPT ![names[i]] = r.value], js, names, i + 1)
       IN Ret(rest.self, rest.value, r.made \o rest.made)

\* WriteOnly(key, std::map<std::string, TValue>& m)
WriteOnly_map(self, k, VT, m, js) ==
  IF ~self.IsWriter THEN Ret(self, m, <<>>)
  ELSE LET subVal == NewContext(self.IsWriter)
           r == MapWriteLoop(subVal, VT, m, js, MemberNames(m), 1)
       IN Ret([self EXCEPT !.JsonValue = Assign(@, k, r.self.JsonValue)],
              r.value, <<subVal.IsWriter>> \o r.made)

\* Serialize(key, std::map<std::string, TValue>& m)
Serialize_map(self, k, VT, m, js) ==
  IF self.IsWriter THEN WriteOnly_map(self, k, VT, m, js)
  ELSE LET subVal == [NewContext(self.IsWriter) EXCEPT !.JsonValue = Index(self.JsonValue, k)]
           r == ReadOnly_map(subVal, VT, m, js)
       IN Ret(self, r.value, <<subVal.IsWriter>> \o r.made)

\* Overload resolution of Serialize(key, value) on the type of value.
Serialize(self, k, T, val, js) ==
  CASE T \in Classes -> Serialize_class(self, k, T, val, js)
    [] T \in Fundamental \cup {"string"} -> Serialize_scalar(self, k, T, val)
    [] T \in Enums -> Serialize_enum(self, k, T, val)
    [] T \in Vectors -> Serialize_vector(self, k, ElemType(T), val, js)
    [] T \in Deques -> Serialize_deque(self, k, ElemType(T), val, js)
    [] T \in Maps -> Serialize_map(self, k, ElemType(T), val, js)

\* WriteOnly(key, const Json::Value& value)
WriteOnly_json(self, k, node) ==
  [self EXCEPT !.JsonValue = Assign(@, k, node)]

\* WriteOnly(key, TValue* value): Serialize(key, *value)
WriteOnly_pointer(self, k, T, val, js) == Serialize(self, k, T, val, js)

-----------------------------------------------------------------------------
(* Inputs *)

SeqsUpTo(S, n) == UNION {[1..m -> S] : m \in 0..n}
MapsOver(K, S) == UNION {[D -> S] : D \in SUBSET K}

MapKeys == {"a", "b"}
IntElems == {N(0), N(7)}
PVals == {[n |-> N(42), s |-> "d"], [n |-> N(7), s |-> "x"]}

\* The native values a call is given.
Values(T) ==
  CASE T = "bool" -> BOOLEAN
    [] T = "short" -> {N(7), MinusOne}
    [] T = "int" -> {N(0), N(42), MinusOne, IntMax, IntMin}
    [] T = "uint" -> {N(7), TwoTo31, UIntMax}
    [] T = "long" -> {N(7), MinusOne, IntMax, TwoTo31, TwoTo32,
                      <<65535, 65535, 32767, 65535>>}
    [] T = "ulong" -> {N(7), IntMax, UIntMax, TwoTo32, <<0, 1, 0, 7>>}
    [] T = "size_t" -> {N(7), TwoTo31, TwoTo32}
    [] T = "string" -> {"", "x"}
    [] T = "E" -> {N(0), N(2), MinusOne}
    [] T = "E64" -> {N(1), TwoTo32}
    [] T \in {"vector_int", "deque_int"} -> SeqsUpTo(IntElems, MaxLen)
    [] T = "vector_string" -> SeqsUpTo({"", "x"}, MaxLen)
    [] T = "vector_vector_int" -> SeqsUpTo({<<>>, <<N(7)>>}, MaxLen)
    [] T = "vector_P" -> SeqsUpTo(PVals, MaxLen)
    [] T = "map_int" -> MapsOver(MapKeys, IntElems)
    [] T = "map_vector_int" -> MapsOver(MapKeys, {<<>>, <<N(7)>>})
    [] T = "map_P" -> MapsOver(MapKeys, PVals)
    [] T = "P" -> PVals \cup {[n |-> N(7), s |-> ""]}
    [] T = "Q" -> {[v |-> a, m |-> b] :
                     a \in {<<>>, <<N(7)>>, <<N(1), N(2)>>},
                     b \in {EmptyMap, [k \in {"a"} |-> N(1)], [k \in {"b"} |-> N(7)]}}
    [] T = "R" -> {[p |-> a, e |-> b] : a \in PVals, b \in {N(0), N(2)}}
    [] T = "Z" -> {<<>>}

\* Nodes of the wrong shape for a sequence, and for a map or a class.
WrongForArray == {JInt(N(5)), JStr("x"), JObj([k \in {"a"} |-> JInt(N(5))])}
WrongForObject == {JInt(N(5)), JStr("x"), JArr(<<JInt(N(5))>>)}

\* The nodes a document holds where an element or a field of type T is read.
ElemNodes(T) ==
  CASE T = "int" -> {Null, JInt(N(5)), JInt(MinusOne)}
    [] T = "string" -> {Null, JStr("x"), JStr("")}
    [] T = "E" -> {Null, JInt(N(2))}
    [] T = "vector_int" -> {Null, JInt(N(5)), JArr(<<>>), JArr(<<JInt(N(5)), Null>>)}
    [] T = "map_int" -> {Null, JStr("x"), JObj(EmptyMap),
                         JObj([k \in {"a", "b"} |-> IF k = "a" THEN JInt(N(5)) ELSE Null])}
    [] T = "P" -> {Null, JStr("x"), JObj([k \in {"n"} |-> JInt(N(5))]),
                   JObj([k \in {"n", "s"} |-> IF k = "n" THEN JInt(N(5)) ELSE JStr("x")])}

FieldNames(T) == {Fields(T)[i].name : i \in 1..Len(Fields(T))}
FieldType(T, name) ==
  Fields(T)[CHOOSE i \in 1..Len(Fields(T)) : Fields(T)[i].name = name].type

\* The object nodes whose members are fields of class T.
ObjectsFor(T) ==
  LET all == UNION {ElemNodes(FieldType(T, name)) : name \in FieldNames(T)}
  IN {JObj(f) : f \in {g \in MapsOver(FieldNames(T), all) :
                         \A name \in DOMAIN g : g[name] \in ElemNodes(FieldType(T, name))}}

\* The nodes a document holds at the key where a value of type T is read.
Nodes(T) ==
  CASE T = "bool" -> {Null, JBool(TRUE), JBool(FALSE)}
    [] T \in {"short", "int", "long"} -> {Null, JInt(N(5)), JInt(MinusOne)}
    [] T \in {"uint", "ulong", "size_t"} -> {Null, JInt(N(5)), JUInt(N(5)), JUInt(UIntMax)}
    [] T = "string" -> {Null, JStr("x"), JStr("")}
    [] T \in Enums -> {Null, JInt(N(2)), JInt(N(9))}
    [] T \in Vectors \cup Deques ->
         {Null} \cup WrongForArray
         \cup {JArr(s) : s \in SeqsUpTo(ElemNodes(ElemType(T)), MaxLen)}
    [] T \in Maps ->
         {Null} \cup WrongForObject
         \cup {JObj(f) : f \in MapsOver(MapKeys, ElemNodes(ElemType(T)))}
    [] T \in Classes -> {Null} \cup WrongForObject \cup ObjectsFor(T)

\* The trees a root context is bound to.
ReaderRoots(T) ==
  {Null, JObj(EmptyMap)} \cup {JObj([k \in {"k"} |-> n]) : n \in Nodes(T)}
WriterRoots == {Null, JObj([k \in {"k"} |-> JStr("old")])}

RootKeys == {KS("k"), KS("j")}
RawNodes == {JInt(N(7)), JArr(<<>>)}
Junk == {N(0), N(99)}
JunkSeqs == [1..2 -> Junk]

\* The types a document written from a value of type T is read back into:
\* the same type, and for the 64-bit integers the 32-bit field of the same
\* signedness.
ReadAs(T) ==
  {T} \cup (IF T = "ulong" THEN {"uint"} ELSE {})
      \cup (IF T = "long" THEN {"int"} ELSE {})

-----------------------------------------------------------------------------
(* The state machine: a root context, the native value of the call, and the
   record of the last call *)

Init ==
  /\ typ \in Types
  /\ value \in Values(typ)
  /\ IsWriter \in BOOLEAN
  /\ JsonValue \in (IF IsWriter THEN WriterRoots ELSE ReaderRoots(typ))
  /\ op = "none"
  /\ key = KS("k")
  /\ pre = value
  /\ preJson = JsonValue
  /\ mode0 = IsWriter
  /\ made = <<>>
  /\ junk = <<N(0), N(0)>>
  /\ rt = FALSE
  /\ src = value
  /\ srcTyp = typ

Done(name, k, js, r) ==
  /\ op' = name
  /\ key' = k
  /\ junk' = js
  /\ pre' = value
  /\ preJson' = JsonValue
  /\ IsWriter' = r.self.IsWriter
  /\ JsonValue' = r.self.JsonValue
  /\ value' = r.value
  /\ made' = r.made
  /\ UNCHANGED <<typ, mode0, rt, src, srcTyp>>

Self == Bind(IsWriter, JsonValue)

\* Serialize(key, value), and operator()(key, value)
SerializeCall ==
  /\ op = "none"
  /\ \E k \in RootKeys, js \in JunkSeqs :
       /\ rt => k = key
       /\ Done("Serialize", k, js, Serialize(Self, k, typ, value, js))

WriteOnlyScalarCall ==
  /\ op = "none" /\ ~rt
  /\ typ \in Fundamental
  /\ \E k \in RootKeys :
       Done("WriteOnly", k, junk, WriteOnly_scalar(Self, k, typ, value))

WriteOnlyRangeCall ==
  /\ op = "none" /\ ~rt
  /\ typ \in Vectors \cup Deques
  /\ \E k \in RootKeys :
       Done("WriteOnly", k, junk, WriteOnly_range(Self, k, ElemType(typ), value, junk))

WriteOnlyMapCall ==
  /\ op = "none" /\ ~rt
  /\ typ \in Maps
  /\ \E k \in RootKeys :
       Done("WriteOnly", k, junk, WriteOnly_map(Self, k, ElemType(typ), value, junk))

\* WriteOnly(key, node) with a tree value, or with a std::string, which
\* converts to one.
WriteOnlyJsonCall ==
  /\ op = "none" /\ ~rt
  /\ \E k \in RootKeys,
        node \in RawNodes \cup (IF typ = "string" THEN {JStr(value)} ELSE {}) :
       Done("WriteOnly", k, junk, Ret(WriteOnly_json(Self, k, node), value, <<>>))

WriteOnlyPointerCall ==
  /\ op = "none" /\ ~rt
  /\ typ \notin Fundamental
  /\ \E k \in RootKeys, js \in JunkSeqs :
       Done("WriteOnly", k, js, WriteOnly_pointer(Self, k, typ, value, js))

\* The tree a writer context produced from an empty tree is handed to a new
\* reader context, with a freshly default-constructed target.
Reopen ==
  /\ op = "Serialize" /\ IsWriter /\ ~rt /\ isNull(preJson)
  /\ \E T \in ReadAs(typ), j \in Junk :
       /\ typ' = T
       /\ value' = DefaultInit(T, j)
       /\ pre' = DefaultInit(T, j)
  /\ IsWriter' = FALSE
  /\ mode0' = FALSE
  /\ preJson' = JsonValue
  /\ op' = "none"
  /\ made' = <<>>
  /\ rt' = TRUE
  /\ src' = value
  /\ srcTyp' = typ
  /\ UNCHANGED <<JsonValue, key, junk>>

Next ==
  \/ SerializeCall
  \/ WriteOnlyScalarCall
  \/ WriteOnlyRangeCall
  \/ WriteOnlyMapCall
  \/ WriteOnlyJsonCall
  \/ WriteOnlyPointerCall
  \/ Reopen

Spec == Init /\ [][Next]_vars

-----------------------------------------------------------------------------
(* Properties *)

\* The child at the key of the last call, as the tree was before the call.
Child == Index(preJson, key)

ReadDone == op = "Serialize" /\ ~IsWriter
WriteDone == op = "Serialize" /\ IsWriter
IsSeqType(T) == T \in Vectors \cup Deques

\* The numbers of a value of type T fit the 32-bit bound of its signedness.
\* (The numbers inside the containers and classes of Values all do.)
Fits32(T, x) ==
  CASE T \in {"long", "E64"} -> CastInt(x) = x
    [] T \in {"uint", "ulong", "size_t"} -> CastUInt(x) = x
    [] OTHER -> TRUE

\* C1: a value within the 32-bit bounds, written into an empty tree and read
\* back into a freshly default-constructed target of the same type, is
\* reproduced.
C1_RoundTrip ==
  (rt /\ ReadDone /\ typ = srcTyp /\ Fits32(srcTyp, src)) => value = src

\* C2: reading at a key whose child is null leaves the destination as it was.
C2_MissingKeyUnchanged ==
  (ReadDone /\ isNull(Child)) => value = pre

\* C3: reading a sequence from a present node that is not an array, or a map
\* from a present node that is not an object, leaves the container as it was.
C3_ShapeMismatchNoOp ==
  (/\ ReadDone
   /\ ~isNull(Child)
   /\ \/ IsSeqType(typ) /\ ~isArray(Child)
      \/ typ \in Maps /\ ~isObject(Child))
  => value = pre

C3_Witness ==
  /\ ReadDone
  /\ typ = "vector_int"
  /\ Child = JInt(N(5))
  /\ pre = <<N(0), N(7)>>
  /\ value = pre

\* Array element i (0-based) read into a default-constructed element.
ElementRead(ET, arr, i, js) ==
  Serialize(Bind(FALSE, arr), KI(i), ET, DefaultInit(ET, JunkAt(js, i)), js).value

\* C4: reading a sequence from an array of n elements leaves exactly n
\* elements, element i being array element i read into a default-constructed
\* element; a null array element yields the default element.
C4_SequenceReadReplaces ==
  (ReadDone /\ IsSeqType(typ) /\ isArray(Child)) =>
    /\ Len(value) = Len(Child.v)
    /\ \A i \in 1..Len(Child.v) :
         /\ value[i] = ElementRead(ElemType(typ), Child, i - 1, junk)
         /\ isNull(Child.v[i]) =>
              value[i] = DefaultInit(ElemType(typ), JunkAt(junk, i - 1))

C4_Witness ==
  /\ ReadDone
  /\ typ = "vector_string"
  /\ pre = <<"x", "x">>
  /\ Child = JArr(<<Null, JStr("x")>>)
  /\ value = <<"", "x">>

PosOf(names, name) == CHOOSE i \in 1..Len(names) : names[i] = name

\* Member name of an object read into a default-constructed value.
MemberRead(VT, obj, name, js) ==
  Serialize(Bind(FALSE, obj), KS(name), VT,
            DefaultInit(VT, JunkAt(js, PosOf(MemberNames(obj.v), name) - 1)), js).value

\* C5: reading a map from an object leaves the map with the key set of the
\* object, each value read from the member of that name; a null member maps
\* to a default-constructed value.
C5_MapReadSchema ==
  (ReadDone /\ typ \in Maps /\ isObject(Child)) =>
    /\ DOMAIN value = DOMAIN Child.v
    /\ \A name \in DOMAIN Child.v :
         /\ value[name] = MemberRead(ElemType(typ), Child, name, junk)
         /\ isNull(Child.v[name]) =>
              value[name] = DefaultInit(ElemType(typ),
                              JunkAt(junk, PosOf(MemberNames(Child.v), name) - 1))

C5_Witness ==
  /\ ReadDone
  /\ typ = "map_P"
  /\ isObject(Child)
  /\ MemberNames(pre) = <<"b">>
  /\ MemberNames(Child.v) = <<"a">>
  /\ isNull(Child.v["a"])
  /\ value = [k \in {"a"} |-> Ctor("P")]

C8_WriteOnlyNeverReads ==
  (op = "WriteOnly" /\ ~IsWriter) => (JsonValue = preJson /\ value = pre)

\* C9: after a write the bound node has a child at the key, an array for a
\* sequence and an object for a map, empty containers included.
C9_WriteAttachesKind ==
  WriteDone =>
    /\ isObject(JsonValue)
    /\ IsMember(JsonValue.v, key.name)
    /\ IsSeqType(typ) => isArray(Index(JsonValue, key))
    /\ typ \in Maps => isObject(Index(JsonValue, key))

\* C10: every context constructed during a call has the mode of the root
\* context, and the root context keeps the mode it was constructed with.
C10_ModeInherited ==
  /\ IsWriter = mode0
  /\ \A i \in 1..Len(made) : made[i] = mode0

C10_Witness ==
  /\ ReadDone
  /\ typ = "vector_P"
  /\ Len(made) >= 3

====
